---- MODULE Spec2Model ----
(***************************************************************************)
(* Model of APIRateLimiter (src/rate_limiter.py): the semaphore that bounds *)
(* the number of concurrent requests and the retry loop with exponential    *)
(* backoff that rate_limit wraps around an asynchronous operation; and of   *)
(* the batch run of src/main.py, whose wrapped operation is                 *)
(* RedditAPIClient.get_submission_comments and whose output is the          *)
(* workbook of ExcelHandler.                                                *)
(*                                                                          *)
(* Every task is one call of the wrapper, for one row of the input.  The    *)
(* tasks run on one asyncio event loop, so the code between two suspension  *)
(* points is one atomic step.  The suspension points of a wrapper call are  *)
(* the acquisition of the semaphore, the awaited fetch of the submission    *)
(* and asyncio.sleep; the coroutines of ExcelHandler never suspend.         *)
(***************************************************************************)
EXTENDS Integers, Sequences, FiniteSets, TLC

\* Bounds of the model.
NumTasks == 2
MaxRetriesBound == 2
MaxConcurrentBound == 2
\* Largest number of comments of a fetched submission.
MaxComments == 4
\* Number of traffic labels of the input; label k is the k-th in the order
\* of the values of the 3rd column.
NumLabels == 2
\* uniform(0, b) is sampled at the JitterParts + 1 points that cut [0, b]
\* into equal parts.
JitterParts == 1

Tasks == 1..NumTasks

\* The values of initial_delay, in milliseconds.
InitialDelays == {500, 1000}

\* What one awaited invocation of the wrapped operation can raise:
\* ResponseException with status 429, ResponseException with another
\* status, RequestException, an exception of any other class out of the
\* fetch, or OSError out of the save of the workbook, after the row was
\* appended.
Raisable == {"Response429", "ResponseOther", "RequestException", "Exception",
             "OSError"}

VARIABLES
    max_retries,   \* self.max_retries
    max_concurrent,\* the max_concurrent_requests given to __init__
    initial_delay, \* self.initial_delay
    semaphore,     \* the value (free slots) of self.semaphore
    holder,        \* the tasks inside the `async with self.semaphore` block
    pc,            \* where each wrapper call is
    retries,       \* the local counter of each wrapper call
    calls,         \* number of invocations of func started by each call
    outcomes,      \* the outcomes of the finished invocations of each call
    waits,         \* number of asyncio.sleep waits started by each call
    wait_time,     \* the wait_time of the asyncio.sleep a call is in, else 0
    log,           \* the records each call has sent to the logger
    traffic,       \* the traffic label of the input row of each task
    fetched,       \* the submission the operation of each task has fetched
    write_workbook,\* ExcelHandler.write_workbook: sheet name -> rows
    output_file,   \* the workbook last saved to write_file_path
    run_pc,        \* where RedditAPIClient.run is
    run_log,       \* the records run has sent to the logger
    sort_done      \* sort_output_by_traffic has replaced the rows

limiterVars == <<max_retries, max_concurrent, initial_delay, semaphore,
                 holder, pc, retries, calls, outcomes, waits, wait_time, log>>
inputVars == <<traffic>>
bookVars == <<fetched, write_workbook, output_file>>
runVars == <<run_pc, run_log, sort_done>>
vars == <<limiterVars, inputVars, bookVars, runVars>>

Last(s) == s[Len(s)]

\* asyncio.Semaphore(max_concurrent_requests)
NewSemaphore_plus1(n) == n + 1
NewSemaphore(n) == n

\* while retries <= self.max_retries
LoopCond_lt(r) == r < max_retries
LoopCond(r) == r <= max_retries

\* except (ResponseException, RequestException)
Caught_response(e) == e \in {"Response429", "ResponseOther"}
Caught_all(e) == TRUE
Caught(e) == e \in {"Response429", "ResponseOther", "RequestException"}

\* isinstance(e, ResponseException) and e.response.status != 429
IsNonRetryable_none(e) == FALSE
IsNonRetryable_transport(e) == e \in {"ResponseOther", "RequestException"}
IsNonRetryable(e) == e = "ResponseOther"

\* retries += 1
Incr_two(r) == r + 2
Incr(r) == r + 1

\* if retries > self.max_retries
Exhausted_ge(r) == r >= max_retries
Exhausted_late(r) == r > max_retries + 1
Exhausted(r) == r > max_retries

\* The value of the semaphore after the `async with` block is left; how is
\* "return", "raise", "loop" or "cancel".
ExitGate_returnOnly(how) == IF how = "return" THEN semaphore + 1 ELSE semaphore
ExitGate_notAfterWait(how) == IF how = "loop" THEN semaphore ELSE semaphore + 1
ExitGate(how) == semaphore + 1

\* logger.warning of wait_with_jitter and logger.error of the wrapper.
Warning_previous(r) == [level |-> "warning", retry |-> r - 1]
Warning(r) == [level |-> "warning", retry |-> r]
Error == [level |-> "error", retry |-> max_retries]

\* delay = base_delay * (2 ** (retries - 1))
Delay_noMinusOne(r, base_delay) == base_delay * (2 ^ r)
Delay(r, base_delay) == base_delay * (2 ^ (r - 1))

\* random.uniform(0, b), at its sample points.
Uniform(b) == {(b * j) \div JitterParts : j \in 0..JitterParts}

\* wait_time = delay + jitter, jitter = random.uniform(0, delay * 0.1)
WaitTimes_fifth(delay) == {delay + j : j \in Uniform(delay \div 5)}
WaitTimes(delay) == {delay + j : j \in Uniform(delay \div 10)}

----------------------------------------------------------------------------
\* The workbook of ExcelHandler and the operation of main.py.

\* The rows of a sheet; the first row of a created sheet is the header
\* ["URL", "Number of comments", "Traffic"].
Header == [kind |-> "header", url |-> 0, count |-> 0, traffic |-> 0]
Row(url, count, tr) == [kind |-> "data", url |-> url, count |-> count,
                        traffic |-> tr]

\* Workbook(): one sheet, "Sheet", without rows.
NewWorkbook == [n \in {"Sheet"} |-> <<>>]
NoFile == [n \in {} |-> <<>>]

\* _get_or_create_sheet: the workbook with the sheet in it.
GetOrCreateSheet_always(wb, name) ==
    [n \in DOMAIN wb \cup {name} |->
        IF n = name
        THEN (IF n \in DOMAIN wb THEN wb[n] ELSE <<>>) \o <<Header>>
        ELSE wb[n]]
GetOrCreateSheet(wb, name) ==
    IF name \in DOMAIN wb
    THEN wb
    ELSE [n \in DOMAIN wb \cup {name} |->
             IF n = name THEN <<Header>> ELSE wb[n]]

\* write_data_to_sheet, without the save.
WriteDataToSheet(wb, row, name) ==
    [GetOrCreateSheet(wb, name) EXCEPT ![name] = Append(@, row)]

\* The sheet _write_comments_to_excel writes a submission with c comments
\* to; "" when it writes none.
SheetFor_lt3(c) ==
    IF c = 0 THEN "No comments"
    ELSE IF 1 <= c /\ c < 3 THEN "3 or less comments"
    ELSE ""
SheetFor(c) ==
    IF c = 0 THEN "No comments"
    ELSE IF 1 <= c /\ c <= 3 THEN "3 or less comments"
    ELSE ""

\* _write_comments_to_excel, without the save.
WriteCommentsToExcel(wb, url, c, tr) ==
    IF SheetFor(c) = ""
    THEN wb
    ELSE WriteDataToSheet(wb, Row(url, IF c = 0 THEN 0 ELSE c, tr), SheetFor(c))

\* What the awaited self.reddit.submission(url=...) gives when it does not
\* raise into the wrapper: InvalidURL, or a submission with its comments,
\* which is locked or archived ("locked") or neither ("open").
NoFetch == [kind |-> "none", comments |-> 0]
Open(c) == [kind |-> "open", comments |-> c]
Submissions ==
    {[kind |-> "InvalidURL", comments |-> 0]}
        \cup {[kind |-> k, comments |-> c] :
                  k \in {"locked", "open"}, c \in 0..MaxComments}

\* The records get_submission_comments logs after the fetch.
InvalidUrlWarning == [level |-> "warning", msg |-> "Invalid submission URL"]
Info == [level |-> "info", msg |-> "Successfully processed submission"]
FuncLog_silent(sub) == IF sub.kind = "open" THEN <<Info>> ELSE <<>>
FuncLog(sub) ==
    IF sub.kind = "InvalidURL" THEN <<InvalidUrlWarning>>
    ELSE IF sub.kind = "open" THEN <<Info>>
    ELSE <<>>

\* sorted(rows, key=lambda x: x[2], reverse=True): stable, descending.
InsertDesc(s, x) ==
    LET p == Cardinality({i \in 1..Len(s) : s[i].traffic >= x.traffic})
    IN  SubSeq(s, 1, p) \o <<x>> \o SubSeq(s, p + 1, Len(s))
InsertAsc(s, x) ==
    LET p == Cardinality({i \in 1..Len(s) : s[i].traffic <= x.traffic})
    IN  SubSeq(s, 1, p) \o <<x>> \o SubSeq(s, p + 1, Len(s))
RECURSIVE SortedAsc(_)
SortedAsc(rows) ==
    IF rows = <<>> THEN <<>>
    ELSE InsertAsc(SortedAsc(SubSeq(rows, 1, Len(rows) - 1)), Last(rows))
RECURSIVE SortedDesc(_)
SortedDesc(rows) ==
    IF rows = <<>> THEN <<>>
    ELSE InsertDesc(SortedDesc(SubSeq(rows, 1, Len(rows) - 1)), Last(rows))

\* _sort_sheet_data_by_traffic: the rows from the 2nd on, sorted.
SortSheetDataByTraffic_ascending(sheet) == SortedAsc(SubSeq(sheet, 2, Len(sheet)))
SortSheetDataByTraffic(sheet) == SortedDesc(SubSeq(sheet, 2, Len(sheet)))

\* _replace_sheet_data: delete_rows(2, max_row), then the appends.
ReplaceSheetData(sheet, sorted_data) ==
    SubSeq(sheet, 1, IF Len(sheet) >= 1 THEN 1 ELSE 0) \o sorted_data

\* sort_output_by_traffic, without the save.
SortOutputByTraffic(wb) ==
    [n \in DOMAIN wb |-> ReplaceSheetData(wb[n], SortSheetDataByTraffic(wb[n]))]

\* await asyncio.gather(*tasks) returns when every task has returned, and
\* raises when a task has raised or was cancelled.
GatherOk_returnExceptions ==
    \A t \in Tasks : pc[t] \in {"returned", "raised", "cancelled"}
GatherOk == \A t \in Tasks : pc[t] = "returned"
GatherRaises == \E t \in Tasks : pc[t] \in {"raised", "cancelled"}

----------------------------------------------------------------------------
Init ==
    /\ max_retries \in 0..MaxRetriesBound
    /\ max_concurrent \in 1..MaxConcurrentBound
    /\ initial_delay \in InitialDelays
    /\ semaphore = NewSemaphore(max_concurrent)
    /\ holder = {}
    /\ pc = [t \in Tasks |-> "init"]
    /\ retries = [t \in Tasks |-> 0]
    /\ calls = [t \in Tasks |-> 0]
    /\ outcomes = [t \in Tasks |-> <<>>]
    /\ waits = [t \in Tasks |-> 0]
    /\ wait_time = [t \in Tasks |-> 0]
    /\ log = [t \in Tasks |-> <<>>]
    /\ traffic \in [Tasks -> 1..NumLabels]
    /\ fetched = [t \in Tasks |-> NoFetch]
    /\ write_workbook = NewWorkbook
    /\ output_file = NoFile
    /\ run_pc = "init"
    /\ run_log = <<>>
    /\ sort_done = FALSE

\* run: read_data gives the rows or None; a task is queued for every row
\* and gather is awaited.
Run ==
    /\ run_pc = "init"
    /\ \E data_read \in BOOLEAN :
          IF data_read
          THEN /\ run_pc' = "gather"
               /\ run_log' = [i \in 1..NumTasks |-> "Queued"]
          ELSE /\ run_pc' = "nodata"
               /\ run_log' = <<"No data to process in file!">>
    /\ UNCHANGED <<limiterVars, inputVars, bookVars, sort_done>>

\* Where the call goes when it evaluates the loop condition with counter r:
\* to the `async with`, or past the loop to the unguarded invocation.
LoopTop(r) == IF LoopCond(r) THEN "acquire" ELSE "fallback"

\* The wrapper is called: retries = 0 and the first test of the loop.
Wrapper(t) ==
    /\ run_pc \in {"gather", "failed"}
    /\ pc[t] = "init"
    /\ retries' = [retries EXCEPT ![t] = 0]
    /\ pc' = [pc EXCEPT ![t] = LoopTop(0)]
    /\ calls' = [calls EXCEPT ![t] = IF LoopTop(0) = "fallback" THEN @ + 1 ELSE @]
    /\ UNCHANGED <<max_retries, max_concurrent, semaphore, holder, outcomes,
                   waits, log>>
    /\ UNCHANGED <<initial_delay, wait_time, inputVars, bookVars, runVars>>

\* async with self.semaphore: a slot is taken and func is invoked.
Acquire(t) ==
    /\ pc[t] = "acquire"
    /\ semaphore > 0
    /\ semaphore' = semaphore - 1
    /\ holder' = holder \cup {t}
    /\ pc' = [pc EXCEPT ![t] = "call"]
    /\ calls' = [calls EXCEPT ![t] = @ + 1]
    /\ UNCHANGED <<max_retries, max_concurrent, retries, outcomes, waits, log>>
    /\ UNCHANGED <<initial_delay, wait_time, inputVars, bookVars, runVars>>

\* return await func(*args, **kwargs), inside the block or after the loop:
\* the fetch is over and get_submission_comments runs to its return.
FuncReturn(t) ==
    /\ pc[t] \in {"call", "fallback"}
    /\ outcomes' = [outcomes EXCEPT ![t] = Append(@, "ok")]
    /\ pc' = [pc EXCEPT ![t] = "returned"]
    /\ semaphore' = IF t \in holder THEN ExitGate("return") ELSE semaphore
    /\ holder' = holder \ {t}
    /\ \E sub \in Submissions :
          /\ fetched' = [fetched EXCEPT ![t] = sub]
          /\ write_workbook' =
                 IF sub.kind = "open"
                 THEN WriteCommentsToExcel(write_workbook, t, sub.comments,
                                           traffic[t])
                 ELSE write_workbook
          /\ output_file' =
                 IF sub.kind = "open" /\ SheetFor(sub.comments) # ""
                 THEN write_workbook' ELSE output_file
          /\ log' = [log EXCEPT ![t] = @ \o FuncLog(sub)]
    /\ UNCHANGED <<max_retries, max_concurrent, retries, calls, waits>>
    /\ UNCHANGED <<initial_delay, wait_time, inputVars, runVars>>

\* wait_with_jitter, up to its suspension in asyncio.sleep; it is called
\* inside the `async with` block, which stays entered.
WaitWithJitter_released(t) ==
    /\ log' = [log EXCEPT ![t] = Append(@, Warning(retries'[t]))]
    /\ waits' = [waits EXCEPT ![t] = @ + 1]
    /\ \E w \in WaitTimes(Delay(retries'[t], initial_delay)) :
          wait_time' = [wait_time EXCEPT ![t] = w]
    /\ pc' = [pc EXCEPT ![t] = "sleep"]
    /\ semaphore' = semaphore + 1
    /\ holder' = holder \ {t}
WaitWithJitter(t) ==
    /\ log' = [log EXCEPT ![t] = Append(@, Warning(retries'[t]))]
    /\ waits' = [waits EXCEPT ![t] = @ + 1]
    /\ \E w \in WaitTimes(Delay(retries'[t], initial_delay)) :
          wait_time' = [wait_time EXCEPT ![t] = w]
    /\ pc' = [pc EXCEPT ![t] = "sleep"]
    /\ UNCHANGED <<semaphore, holder>>

\* The exception leaves the wrapper through the `async with` block.
Propagate(t) ==
    /\ pc' = [pc EXCEPT ![t] = "raised"]
    /\ semaphore' = IF t \in holder THEN ExitGate("raise") ELSE semaphore
    /\ holder' = holder \ {t}
    /\ UNCHANGED wait_time

\* What the invocation that raises e has done to the workbook: OSError is
\* raised by the save, after the fetch and the append of the row.
RaiseEffect(t, e) ==
    IF e = "OSError"
    THEN \E c \in 0..MaxComments :
            /\ SheetFor(c) # ""
            /\ fetched' = [fetched EXCEPT ![t] = Open(c)]
            /\ write_workbook' =
                   WriteCommentsToExcel(write_workbook, t, c, traffic[t])
            /\ UNCHANGED output_file
    ELSE UNCHANGED bookVars

\* The awaited func raises e.
FuncRaise(t, e) ==
    /\ pc[t] \in {"call", "fallback"}
    /\ outcomes' = [outcomes EXCEPT ![t] = Append(@, e)]
    /\ RaiseEffect(t, e)
    /\ UNCHANGED <<max_retries, max_concurrent, calls>>
    /\ UNCHANGED <<initial_delay, inputVars, runVars>>
    /\ IF pc[t] = "fallback" \/ ~Caught(e) \/ IsNonRetryable(e)
       THEN /\ Propagate(t)
            /\ UNCHANGED <<retries, waits, log>>
       ELSE /\ retries' = [retries EXCEPT ![t] = Incr(@)]
            /\ IF Exhausted(retries'[t])
               THEN /\ log' = [log EXCEPT ![t] = Append(@, Error)]
                    /\ Propagate(t)
                    /\ UNCHANGED waits
               ELSE WaitWithJitter(t)

\* asyncio.sleep is over: the block is left, the loop condition is tested.
SleepDone(t) ==
    /\ pc[t] = "sleep"
    /\ semaphore' = IF t \in holder THEN ExitGate("loop") ELSE semaphore
    /\ holder' = holder \ {t}
    /\ pc' = [pc EXCEPT ![t] = LoopTop(retries[t])]
    /\ calls' = [calls EXCEPT ![t] =
                    IF LoopTop(retries[t]) = "fallback" THEN @ + 1 ELSE @]
    /\ wait_time' = [wait_time EXCEPT ![t] = 0]
    /\ UNCHANGED <<max_retries, max_concurrent, retries, outcomes, waits, log>>
    /\ UNCHANGED <<initial_delay, inputVars, bookVars, runVars>>

\* The task is cancelled at the suspension point it is at: CancelledError is
\* raised there and leaves the wrapper.
Cancel(t) ==
    /\ pc[t] \in {"acquire", "call", "sleep", "fallback"}
    /\ pc' = [pc EXCEPT ![t] = "cancelled"]
    /\ outcomes' = [outcomes EXCEPT ![t] =
                       IF pc[t] \in {"call", "fallback"}
                       THEN Append(@, "CancelledError") ELSE @]
    /\ semaphore' = IF t \in holder THEN ExitGate("cancel") ELSE semaphore
    /\ holder' = holder \ {t}
    /\ wait_time' = [wait_time EXCEPT ![t] = 0]
    /\ UNCHANGED <<max_retries, max_concurrent, retries, calls, waits, log>>
    /\ UNCHANGED <<initial_delay, inputVars, bookVars, runVars>>

\* gather has returned: sort_output_by_traffic sorts every sheet and saves,
\* and run logs the completion; the save can raise.
RunSort ==
    /\ run_pc = "gather"
    /\ GatherOk
    /\ write_workbook' = SortOutputByTraffic(write_workbook)
    /\ sort_done' = TRUE
    /\ \E saved \in BOOLEAN :
          IF saved
          THEN /\ output_file' = write_workbook'
               /\ run_pc' = "done"
               /\ run_log' = Append(run_log, "Processing complete!")
          ELSE /\ run_pc' = "failed"
               /\ UNCHANGED <<output_file, run_log>>
    /\ UNCHANGED <<limiterVars, inputVars, fetched>>

\* gather has raised the exception of a task: run is left by it.
RunFail ==
    /\ run_pc = "gather"
    /\ GatherRaises
    /\ run_pc' = "failed"
    /\ UNCHANGED <<limiterVars, inputVars, bookVars, run_log, sort_done>>

Next ==
    \/ Run
    \/ RunSort
    \/ RunFail
    \/ \E t \in Tasks :
        \/ Wrapper(t)
        \/ Acquire(t)
        \/ FuncReturn(t)
        \/ \E e \in Raisable : FuncRaise(t, e)
        \/ SleepDone(t)
        \/ Cancel(t)

Spec == Init /\ [][Next]_vars

TypeOK ==
    /\ max_retries \in 0..MaxRetriesBound
    /\ max_concurrent \in 1..MaxConcurrentBound
    /\ initial_delay \in InitialDelays
    /\ semaphore \in Int
    /\ holder \subseteq Tasks
    /\ pc \in [Tasks -> {"init", "acquire", "call", "sleep", "fallback",
                         "returned", "raised", "cancelled"}]
    /\ retries \in [Tasks -> Nat]
    /\ calls \in [Tasks -> Nat]
    /\ waits \in [Tasks -> Nat]
    /\ wait_time \in [Tasks -> Nat]
    /\ traffic \in [Tasks -> 1..NumLabels]
    /\ run_pc \in {"init", "nodata", "gather", "failed", "done"}
    /\ sort_done \in BOOLEAN

----------------------------------------------------------------------------
\* Helpers of the properties.
Retryable == {"Response429", "RequestException"}
Guarded == {t \in Tasks : pc[t] \in {"call", "sleep"}}
Finished == {"returned", "raised", "cancelled"}
NumErrors(t) == Cardinality({i \in DOMAIN log[t] : log[t][i].level = "error"})
AllAre(t, e) == \A i \in DOMAIN outcomes[t] : outcomes[t][i] = e
RateLimitedPrefix(t, k) ==
    /\ Len(outcomes[t]) >= k
    /\ \A i \in 1..k : outcomes[t][i] = "Response429"
Raised(t, e) == outcomes'[t] = Append(outcomes[t], e)

\* C1: in every reachable state at most max_concurrent wrapper calls are
\* past the acquisition of the semaphore and before its release.
C1_AtMostNInside ==
    /\ Cardinality(holder) <= max_concurrent
    /\ Cardinality(Guarded) <= max_concurrent

\* The gate is full and another call is waiting for a slot.
C1_Witness ==
    /\ Cardinality(holder) = max_concurrent
    /\ \E t \in Tasks : pc[t] = "acquire" /\ calls[t] = 0

\* C2 as stated: no task holds a slot of the gate while it is in its
\* backoff wait.
C2_Original == \A t \in Tasks : pc[t] = "sleep" => t \notin holder

\* C2 amended: a task holds its slot during the whole backoff wait; the slot
\* is released when the wait is over and taken again for the next attempt.
C2_HeldDuringWait ==
    [][\A t \in Tasks :
          /\ pc[t] = "sleep" => t \in holder
          /\ pc'[t] = "sleep" => t \in holder'
          /\ (pc[t] = "call" /\ pc'[t] = "sleep") => semaphore' = semaphore
          /\ (pc[t] = "sleep" /\ pc'[t] = "acquire") =>
                 t \notin holder' /\ semaphore' = semaphore + 1
          /\ (pc[t] = "acquire" /\ pc'[t] = "call") =>
                 t \notin holder /\ t \in holder' /\ semaphore' = semaphore - 1
      ]_vars

\* A task sleeps with the only free slot while another waits for the gate.
C2_Witness ==
    \E t, u \in Tasks :
        /\ pc[t] = "sleep" /\ t \in holder
        /\ pc[u] = "acquire" /\ semaphore = 0

\* C3: a call whose operation fails with status 429 on every invocation
\* invokes it exactly max_retries + 1 times, then raises, and logs exactly
\* one error, as the last record, on the final attempt.
C3_ExhaustAfterMaxPlusOne ==
    \A t \in Tasks :
        (outcomes[t] # <<>> /\ AllAre(t, "Response429")) =>
            /\ calls[t] <= max_retries + 1
            /\ Len(outcomes[t]) = max_retries + 1 =>
                   /\ pc[t] = "raised"
                   /\ calls[t] = max_retries + 1
                   /\ NumErrors(t) = 1
                   /\ Last(log[t]).level = "error"
            /\ Len(outcomes[t]) < max_retries + 1 =>
                   /\ pc[t] \notin {"raised", "returned"}
                   /\ NumErrors(t) = 0

C3_Witness ==
    \E t \in Tasks :
        /\ max_retries >= 1
        /\ pc[t] = "raised"
        /\ AllAre(t, "Response429")
        /\ Len(outcomes[t]) = max_retries + 1

\* C4: a call whose operation fails k times with status 429, 1 <= k <=
\* max_retries, is not given up, and when the next invocation succeeds it
\* returns after exactly k + 1 invocations and k waits, no error logged.
C4_SuccessAfterKFailures ==
    \A t \in Tasks : \A k \in 1..max_retries :
        /\ (RateLimitedPrefix(t, k) /\ Len(outcomes[t]) = k) =>
               /\ pc[t] \in {"sleep", "acquire", "call", "cancelled"}
               /\ NumErrors(t) = 0
        /\ (RateLimitedPrefix(t, k) /\ Len(outcomes[t]) = k + 1
                /\ outcomes[t][k + 1] = "ok") =>
               /\ pc[t] = "returned"
               /\ calls[t] = k + 1
               /\ waits[t] = k
               /\ NumErrors(t) = 0

C4_Witness ==
    \E t \in Tasks :
        /\ pc[t] = "returned"
        /\ max_retries >= 2
        /\ RateLimitedPrefix(t, max_retries)
        /\ waits[t] = max_retries

\* C5: a ResponseException whose status is not 429 leaves the wrapper at
\* once, whatever retries is: no further invocation, no wait, no increment
\* of retries, and nothing of it afterwards.
C5_NonRetryablePropagates ==
    [][\A t \in Tasks :
          /\ Raised(t, "ResponseOther") =>
                 /\ pc'[t] = "raised"
                 /\ retries'[t] = retries[t]
                 /\ waits'[t] = waits[t]
                 /\ calls'[t] = calls[t]
                 /\ log'[t] = log[t]
          /\ pc[t] = "raised" =>
                 /\ pc'[t] = "raised"
                 /\ retries'[t] = retries[t]
                 /\ waits'[t] = waits[t]
                 /\ calls'[t] = calls[t]
      ]_vars

C5_Witness ==
    \E t \in Tasks :
        /\ pc[t] = "raised"
        /\ Last(outcomes[t]) = "ResponseOther"
        /\ retries[t] >= 1

\* C6: the slot is given back on every way out of the guarded section:
\* a call that has returned, raised or been cancelled holds no slot, and
\* when no call is inside the section all max_concurrent slots are free.
C6_SlotReturned ==
    /\ \A t \in Tasks : pc[t] \in Finished \cup {"init", "acquire"} =>
                            t \notin holder
    /\ Guarded = {} => semaphore = max_concurrent
    /\ semaphore = max_concurrent - Cardinality(holder)

\* One call was cancelled inside the operation, another raised, none is
\* inside the section.
C6_Witness ==
    \E t, u \in Tasks :
        /\ pc[t] = "cancelled" /\ outcomes[t] # <<>>
        /\ Last(outcomes[t]) = "CancelledError"
        /\ pc[u] = "raised"
        /\ Guarded = {}

\* C7: a RequestException is handled as a 429 response is: retries is
\* incremented, and the call waits and invokes the operation again unless
\* retries exceeds max_retries, in which case it logs the error and raises.
C7_TransportRetried ==
    [][\A t \in Tasks : \A e \in Retryable :
          Raised(t, e) =>
              /\ retries'[t] = retries[t] + 1
              /\ IF retries'[t] > max_retries
                 THEN /\ pc'[t] = "raised"
                      /\ log'[t] = Append(log[t], Error)
                      /\ waits'[t] = waits[t]
                 ELSE /\ pc'[t] = "sleep"
                      /\ log'[t] = Append(log[t], Warning(retries'[t]))
                      /\ waits'[t] = waits[t] + 1
      ]_vars

\* The operation is invoked again after a RequestException.
C7_Witness ==
    \E t \in Tasks :
        /\ pc[t] = "call"
        /\ calls[t] = 2
        /\ outcomes[t] = <<"RequestException">>

\* C8 as stated: a RequestException leaves the wrapper at once, without a
\* retry.
C8_Original ==
    [][\A t \in Tasks :
          Raised(t, "RequestException") =>
              pc'[t] = "raised" /\ retries'[t] = retries[t]
      ]_vars

\* C8 amended: a RequestException is raised to the caller only when the
\* retries are used up (retries = max_retries + 1); a ResponseException
\* with a status other than 429 is raised at once.
C8_TransportRaisedOnExhaustion ==
    \A t \in Tasks :
        outcomes[t] # <<>> =>
            /\ Last(outcomes[t]) = "RequestException" =>
                   /\ retries[t] >= 1
                   /\ pc[t] = "raised" <=> retries[t] = max_retries + 1
            /\ Last(outcomes[t]) = "ResponseOther" => pc[t] = "raised"

C8_Witness ==
    \E t \in Tasks :
        /\ pc[t] = "raised"
        /\ Last(outcomes[t]) = "RequestException"
        /\ waits[t] >= 1

\* C9: retries starts at 0, stays in 0..max_retries+1, grows by exactly 1 on
\* a retryable failure and on no other step, and the call raises as soon as
\* retries > max_retries: it never waits or invokes with such a value.
C9_RetriesCounter ==
    [][\A t \in Tasks :
          /\ retries[t] \in 0..(max_retries + 1)
          /\ retries'[t] \in 0..(max_retries + 1)
          /\ pc[t] = "init" => retries[t] = 0 /\ retries'[t] = 0
          /\ retries'[t] # retries[t] =>
                 /\ retries'[t] = retries[t] + 1
                 /\ \E e \in Retryable : Raised(t, e)
          /\ \A e \in Retryable : Raised(t, e) => retries'[t] = retries[t] + 1
          /\ retries'[t] > max_retries => pc'[t] = "raised"
          /\ pc'[t] \in {"sleep", "acquire", "call", "fallback"} =>
                 retries'[t] <= max_retries
      ]_vars

C9_Witness ==
    \E t \in Tasks :
        /\ max_retries >= 1
        /\ retries[t] = max_retries + 1
        /\ pc[t] = "raised"
        /\ Len(outcomes[t]) = max_retries + 1

\* C10: the invocation after the loop is never executed: every invocation
\* of the operation is made inside the guarded section.
C10_FallbackUnreachable ==
    \A t \in Tasks :
        /\ pc[t] # "fallback"
        /\ calls[t] = Len(outcomes[t]) + (IF pc[t] = "call" THEN 1 ELSE 0)
        /\ pc[t] = "call" => t \in holder

\* The loop was left by a return after a wait and by a raise on exhaustion.
C10_Witness ==
    \E t, u \in Tasks :
        /\ pc[t] = "returned" /\ waits[t] >= 1
        /\ pc[u] = "raised" /\ retries[u] = max_retries + 1

----------------------------------------------------------------------------
\* Helpers of the properties of the backoff and of the batch run.
OutputSheets == {"No comments", "3 or less comments"}
DataRows(wb, n) == IF n \in DOMAIN wb THEN SubSeq(wb[n], 2, Len(wb[n])) ELSE <<>>
Count(s, x) == Cardinality({i \in DOMAIN s : s[i] = x})
RowsOf(wb, t) ==
    UNION {{<<n, i>> : i \in {j \in DOMAIN wb[n] :
                                  wb[n][j].kind = "data" /\ wb[n][j].url = t}} :
           n \in DOMAIN wb}
BackoffWarnings(t) ==
    {i \in DOMAIN log[t] :
        /\ log[t][i].level = "warning"
        /\ "retry" \in DOMAIN log[t][i]}
Fetches(t, kind) == fetched'[t] # fetched[t] /\ fetched'[t].kind = kind

\* C11: the wait that follows the retries-th retryable failure, retries in
\* 1..max_retries, is the retries-th wait of the call and its wait_time lies
\* in [delay, delay * 1.1] with delay = initial_delay * 2^(retries - 1).
C11_BackoffDelay ==
    [][\A t \in Tasks :
          (pc'[t] = "sleep" /\ pc[t] # "sleep") =>
              LET r == retries'[t]
                  delay == initial_delay * (2 ^ (r - 1))
              IN  /\ r \in 1..max_retries
                  /\ waits'[t] = r
                  /\ delay <= wait_time'[t]
                  /\ 10 * wait_time'[t] <= 11 * delay
      ]_vars

\* The second wait, with the largest jitter: 2 * initial_delay * 1.1.
C11_Witness ==
    \E t \in Tasks :
        /\ pc[t] = "sleep"
        /\ retries[t] = 2
        /\ 10 * wait_time[t] = 22 * initial_delay

\* C12 as stated: every fetched submission with c comments and traffic
\* label tr appends exactly the row (url, c, tr) to "No comments" when
\* c = 0 and to "3 or less comments" when 1 <= c <= 3, and no row when c > 3.
C12_Original ==
    [][\A t \in Tasks :
          (Fetches(t, "open") \/ Fetches(t, "locked")) =>
              LET c == fetched'[t].comments
                  target == IF c = 0 THEN "No comments"
                            ELSE IF c <= 3 THEN "3 or less comments"
                            ELSE "none"
                  row == [kind |-> "data", url |-> t, count |-> c,
                          traffic |-> traffic[t]]
              IN  /\ \A n \in OutputSheets :
                         DataRows(write_workbook', n) =
                             IF n = target
                             THEN Append(DataRows(write_workbook, n), row)
                             ELSE DataRows(write_workbook, n)
                  /\ DOMAIN write_workbook' \subseteq OutputSheets \cup {"Sheet"}
                  /\ write_workbook'["Sheet"] = write_workbook["Sheet"]
      ]_vars

\* C12 amended: so does every fetched submission that is neither locked
\* nor archived; a locked or archived one is skipped without a row.
C12_RowPerSubmission ==
    [][\A t \in Tasks :
          /\ Fetches(t, "locked") => write_workbook' = write_workbook
          /\ Fetches(t, "open") =>
              LET c == fetched'[t].comments
                  target == IF c = 0 THEN "No comments"
                            ELSE IF c <= 3 THEN "3 or less comments"
                            ELSE "none"
                  row == [kind |-> "data", url |-> t, count |-> c,
                          traffic |-> traffic[t]]
              IN  /\ \A n \in OutputSheets :
                         DataRows(write_workbook', n) =
                             IF n = target
                             THEN Append(DataRows(write_workbook, n), row)
                             ELSE DataRows(write_workbook, n)
                  /\ DOMAIN write_workbook' \subseteq OutputSheets \cup {"Sheet"}
                  /\ write_workbook'["Sheet"] = write_workbook["Sheet"]
      ]_vars

\* A submission with 3 comments has its row, one with 4 comments has none.
C12_Witness ==
    \E t, u \in Tasks :
        /\ fetched[t] = Open(3) /\ pc[t] = "returned"
        /\ fetched[u] = Open(4) /\ pc[u] = "returned"
        /\ ~sort_done
        /\ DOMAIN write_workbook = {"Sheet", "3 or less comments"}
        /\ DataRows(write_workbook, "3 or less comments") =
               <<Row(t, 3, traffic[t])>>

\* C13: the sort step leaves the sheets and the first row of every sheet
\* as they are, and puts the other rows of every sheet, the same rows as
\* before, in non-increasing order of the 3rd column.
C13_SortedDescending ==
    [][(~sort_done /\ sort_done') =>
          /\ DOMAIN write_workbook' = DOMAIN write_workbook
          /\ \A n \in DOMAIN write_workbook :
                LET before == write_workbook[n]
                    after == write_workbook'[n]
                IN  /\ Len(after) = Len(before)
                    /\ Len(before) >= 1 => after[1] = before[1]
                    /\ \A i \in DOMAIN before :
                           Count(after, before[i]) = Count(before, before[i])
                    /\ \A i \in 2..(Len(after) - 1) :
                           after[i].traffic >= after[i + 1].traffic
      ]_vars

\* The sort has put two rows of different traffic in another order than
\* the one they were saved in.
C13_Witness ==
    /\ sort_done
    /\ run_pc = "failed"
    /\ "3 or less comments" \in DOMAIN write_workbook
    /\ Len(write_workbook["3 or less comments"]) = 3
    /\ output_file # write_workbook
    /\ write_workbook["3 or less comments"][2].traffic >
           write_workbook["3 or less comments"][3].traffic

\* C14: the invocation that meets an invalid URL logs a warning and returns
\* normally: no row is written, retries is not incremented, no wait is
\* made; and run is left by an exception only when a task has raised or was
\* cancelled or the sort has run, so the other items and the sort go on.
C14_InvalidUrlSkipped ==
    [][/\ \A t \in Tasks :
             Fetches(t, "InvalidURL") =>
                 /\ pc'[t] = "returned"
                 /\ log'[t] = Append(log[t], InvalidUrlWarning)
                 /\ write_workbook' = write_workbook
                 /\ output_file' = output_file
                 /\ retries'[t] = retries[t]
                 /\ waits'[t] = waits[t]
                 /\ run_pc' = run_pc
       /\ (run_pc = "gather" /\ run_pc' = "failed") =>
              \/ \E t \in Tasks : pc[t] \in {"raised", "cancelled"}
              \/ sort_done'
      ]_vars

\* The run is complete, with an item skipped for its URL and a row written
\* for another.
C14_Witness ==
    \E t, u \in Tasks :
        /\ run_pc = "done" /\ sort_done
        /\ fetched[t].kind = "InvalidURL"
        /\ RowsOf(write_workbook, t) = {}
        /\ RowsOf(write_workbook, u) # {}

\* C15: once the wrapped call of an item has raised, the run does not sort
\* and does not log the completion; it is left by the exception and stays
\* so.
C15_RaiseEndsRun ==
    [][/\ (\E t \in Tasks : pc[t] = "raised") =>
              /\ run_pc \in {"gather", "failed"}
              /\ run_pc' \in {"gather", "failed"}
              /\ ~sort_done /\ ~sort_done'
              /\ \A i \in DOMAIN run_log' : run_log'[i] # "Processing complete!"
       /\ run_pc = "failed" => run_pc' = "failed"
      ]_vars

\* The run was left by the exception of one item while the other item had
\* returned.
C15_Witness ==
    \E t, u \in Tasks :
        /\ pc[t] = "raised"
        /\ pc[u] = "returned"
        /\ run_pc = "failed"
        /\ ~sort_done

\* C16: every backoff wait is made in the step that logs one warning with
\* the retry ordinal, the k-th wait with ordinal k; the failure that uses
\* up the retries is followed by the error only; a call that always fails
\* with status 429 makes max_retries waits and logs max_retries warnings.
C16_WarningBeforeWait ==
    [][\A t \in Tasks :
          /\ waits'[t] # waits[t] =>
                 /\ waits'[t] = waits[t] + 1
                 /\ pc'[t] = "sleep"
                 /\ log'[t] = Append(log[t], [level |-> "warning",
                                              retry |-> waits'[t]])
          /\ Cardinality(BackoffWarnings(t)) = waits[t]
          /\ waits[t] <= max_retries
          /\ (pc[t] = "raised" /\ retries[t] > max_retries) =>
                 /\ Last(log[t]).level = "error"
                 /\ waits[t] = max_retries
          /\ (pc[t] = "raised" /\ AllAre(t, "Response429")) =>
                 /\ waits[t] = max_retries
                 /\ Cardinality(BackoffWarnings(t)) = max_retries
      ]_vars

C16_Witness ==
    \E t \in Tasks :
        /\ max_retries = 2
        /\ pc[t] = "raised"
        /\ AllAre(t, "Response429")
        /\ log[t] = <<[level |-> "warning", retry |-> 1],
                      [level |-> "warning", retry |-> 2],
                      [level |-> "error", retry |-> 2]>>

\* C17: every sheet a write has created has the header as its first row
\* and nowhere else, and data rows after it, whatever the interleaving of
\* the tasks.
C17_HeaderOnceFirst ==
    \A n \in DOMAIN write_workbook \ {"Sheet"} :
        /\ Len(write_workbook[n]) >= 2
        /\ write_workbook[n][1] = Header
        /\ \A i \in 2..Len(write_workbook[n]) :
               write_workbook[n][i].kind = "data"

\* Two tasks that were inside the gate together wrote to the same sheet.
C17_Witness ==
    /\ max_concurrent >= 2
    /\ ~sort_done
    /\ "No comments" \in DOMAIN write_workbook
    /\ Len(write_workbook["No comments"]) = 3

\* C19: the output never holds more than one row for an input row, and an
\* invocation that fails with a retryable error writes nothing.
C19_AtMostOneRow ==
    [][\A t \in Tasks :
          /\ Cardinality(RowsOf(write_workbook, t)) <= 1
          /\ Cardinality(RowsOf(write_workbook', t)) <= 1
          /\ Cardinality(RowsOf(output_file', t)) <= 1
          /\ \A e \in Retryable :
                 Raised(t, e) =>
                     /\ write_workbook' = write_workbook
                     /\ output_file' = output_file
      ]_vars

\* A call has retried and then written its row, once.
C19_Witness ==
    \E t \in Tasks :
        /\ waits[t] >= 1
        /\ pc[t] = "returned"
        /\ Cardinality(RowsOf(write_workbook, t)) = 1
        /\ Cardinality(RowsOf(output_file, t)) = 1

----------------------------------------------------------------------------
\* The scheduling C18 assumes: the event loop runs every started task, every
\* invocation of the operation and every sleep completes, and the semaphore
\* admits a waiting task that can be admitted again and again.
Fairness ==
    \A t \in Tasks :
        /\ WF_vars(Wrapper(t))
        /\ SF_vars(Acquire(t))
        /\ WF_vars(FuncReturn(t) \/ \E e \in Raisable : FuncRaise(t, e))
        /\ WF_vars(SleepDone(t))

\* The batch of main.py: initial_delay=1.0; the traffic labels, which no
\* step of a wrapper call reads before its end, are all the first one.
FairInit ==
    /\ Init
    /\ initial_delay = 1000
    /\ traffic = [t \in Tasks |-> 1]

FairSpec == FairInit /\ [][Next]_vars /\ Fairness

\* C18: under that scheduling every wrapper call of a started batch ends,
\* by a return or by an exception, for every capacity and also with more
\* tasks than slots.
C18_EveryCallEnds ==
    \A t \in Tasks :
        (run_pc = "gather" \/ pc[t] # "init") ~> (pc[t] \in Finished)

\* With one slot, a call has ended after its retries while the other call
\* had to wait for the gate.
C18_Witness ==
    \E t, u \in Tasks :
        /\ max_concurrent = 1
        /\ pc[t] \in Finished /\ waits[t] >= 1
        /\ pc[u] = "acquire" /\ semaphore = 1

====
